---- MODULE Spec2Model ----
(***************************************************************************)
(* Model of the record update pipeline of batch-engine:                    *)
(*   src/main.py                    PATCH /records/{id}, GET /db-test      *)
(*   src/services/record_service.py RecordService                          *)
(*   src/db/connection.py           MongoDB (shared client holder)         *)
(*   src/utils/file_utils.py        column extraction and sanitization     *)
(*                                                                         *)
(* Strings that the code inspects character by character (record ids,      *)
(* filenames, header cells, email addresses) are sequences of one-char     *)
(* strings.  Control characters are written by their ASCII names.          *)
(***************************************************************************)
EXTENDS Integers, Sequences, FiniteSets, TLC

\* ------------------------------------------------------------------ bounds
\* Number of request slots served concurrently by the event loop.
MaxCalls == 2
\* Number of uuid4 values drawn (one per composed update payload).
MaxUuid == 2
\* Number of wall-clock instants after the initial one.
MaxClock == 1
\* Number of connect_db invocations.
MaxConnects == 2
\* Length of the column names handed to sanitize_column_name.
MaxNameLen == 3
\* Number of cells in a CSV header row.
MaxCells == 2
\* Number of times sanitize_column_name is applied in a row.
MaxApply == 2

Calls == 1..MaxCalls

\* Python's None, and a field missing from a stored document (see the
\* optional values below).
None == <<>>

\* ------------------------------------------------------------ characters
HexDigits == {"0","1","2","3","4","5","6","7","8","9",
              "a","b","c","d","e","f","A","B","C","D","E","F"}

\* str.lower() on the characters the model uses.
LowerChar(c) ==
    CASE c = "A" -> "a" [] c = "B" -> "b" [] c = "C" -> "c"
      [] c = "D" -> "d" [] c = "E" -> "e" [] c = "F" -> "f"
      [] c = "X" -> "x" [] c = "L" -> "l" [] c = "S" -> "s"
      [] c = "V" -> "v"
      [] OTHER -> c

Lower(s) == [i \in 1..Len(s) |-> LowerChar(s[i])]

\* ord(c) for the control characters; every other character of the model
\* is printable (>= 32).
Ord(c) ==
    CASE c = "NUL" -> 0 [] c = "SOH" -> 1 [] c = "TAB" -> 9 [] c = "LF" -> 10
      [] c = "CR" -> 13 [] c = "US" -> 31 [] c = " " -> 32
      [] OTHER -> 97

\* The characters str.strip() removes: str.isspace() in the ASCII range.
IsSpace(c) == Ord(c) \in (9..13) \cup (28..32)

\* s with every occurrence of character c removed (str.replace(c, '')).
RECURSIVE RemoveChar(_, _)
RemoveChar(s, c) ==
    IF s = <<>> THEN <<>>
    ELSE IF Head(s) = c THEN RemoveChar(Tail(s), c)
    ELSE <<Head(s)>> \o RemoveChar(Tail(s), c)

RECURSIVE LStrip(_)
LStrip(s) == IF s # <<>> /\ IsSpace(Head(s)) THEN LStrip(Tail(s)) ELSE s

RECURSIVE RStrip(_)
RStrip(s) ==
    IF s # <<>> /\ IsSpace(s[Len(s)]) THEN RStrip(SubSeq(s, 1, Len(s) - 1)) ELSE s

\* str.strip()
Strip(s) == RStrip(LStrip(s))

\* ''.join(c for c in s if ord(c) >= 32 or c in '\t')
RECURSIVE DropControl(_)
DropControl(s) ==
    IF s = <<>> THEN <<>>
    ELSE IF Ord(Head(s)) >= 32 \/ Head(s) = "TAB"
         THEN <<Head(s)>> \o DropControl(Tail(s))
         ELSE DropControl(Tail(s))

UnnamedColumn == <<"u","n","n","a","m","e","d","_","c","o","l","u","m","n">>

\* sanitized if sanitized else "unnamed_column"
OrUnnamed(sanitized) == IF sanitized # <<>> THEN sanitized ELSE UnnamedColumn

sanitize_column_name(name) ==
    OrUnnamed(DropControl(Strip(RemoveChar(name, "NUL"))))

\* ------------------------------------------------------------ record ids
\* bson.ObjectId(str): exactly 24 hexadecimal characters.
ObjectIdLen == 24

IsObjectIdString(s) ==
    /\ Len(s) = ObjectIdLen
    /\ \A i \in 1..Len(s) : s[i] \in HexDigits

\* The 12 bytes the string denotes; two spellings that differ in case are
\* the same id.
ObjectId(s) == Lower(s)

\* ------------------------------------------------------- optional values
\* Optional[T]: <<>> is None, <<v>> is the value v.
Some(v) == <<v>>
IsNone(o) == o = <<>>
IsSome(o) == o # <<>>
Get(o) == o[1]

\* ------------------------------------------------------- uploaded files
\* An upload is [filename, content].  The content of a file is described by
\* what the two parsers make of its bytes:
\*   sheet     Some(header row) if the bytes are a workbook pandas can read,
\*             None otherwise (pd.read_excel raises);
\*   cells     the first record csv.reader yields for the decoded bytes,
\*             before NUL removal and newline normalisation;
\*   csv_error csv.reader raises csv.Error on the decoded bytes.
NameCsv  == <<"s", ".", "c", "s", "v">>
NameXlsx == <<"o", ".", "X", "L", "S", "X">>
NameXls  == <<"b", ".", "x", "l", "s">>

FileCsv ==
    [filename |-> NameCsv,
     content  |-> [sheet |-> None, csv_error |-> FALSE,
                   cells |-> << <<"a">>, <<"NUL", " ">>, <<"n", "SOH", "m">> >>]]

FileXlsx ==
    [filename |-> NameXlsx,
     content  |-> [sheet |-> Some(<< <<"b">>, <<>> >>), csv_error |-> FALSE,
                   cells |-> << <<"P", "K">> >>]]

\* A text file uploaded under a spreadsheet name: not a workbook.
FileBad ==
    [filename |-> NameXls,
     content  |-> [sheet |-> None, csv_error |-> FALSE,
                   cells |-> << <<"a">> >>]]

\* A multipart part with an empty filename (an empty file input).
FileNoName ==
    [filename |-> <<>>,
     content  |-> [sheet |-> None, csv_error |-> FALSE, cells |-> <<>>]]

\* filename.lower().split('.')[-1]
RECURSIVE AfterLastDot(_)
AfterLastDot(s) ==
    IF \E i \in 1..Len(s) : s[i] = "."
    THEN AfterLastDot(Tail(s))
    ELSE s

FileExt(filename) == AfterLastDot(Lower(filename))

\* decoded.replace('\r\n', '\n').replace('\r', '\n') on one cell
RECURSIVE NormalizeNewlines(_)
NormalizeNewlines(s) ==
    IF s = <<>> THEN <<>>
    ELSE IF Head(s) = "CR" /\ Len(s) > 1 /\ s[2] = "LF"
         THEN <<"LF">> \o NormalizeNewlines(Tail(Tail(s)))
    ELSE IF Head(s) = "CR" THEN <<"LF">> \o NormalizeNewlines(Tail(s))
    ELSE <<Head(s)>> \o NormalizeNewlines(Tail(s))

DigitChar(i) ==
    CASE i = 0 -> "0" [] i = 1 -> "1" [] i = 2 -> "2" [] i = 3 -> "3"
      [] OTHER -> "9"

\* df.columns.tolist() of pd.read_excel(..., nrows=0): the header row, an
\* empty header cell labelled "Unnamed: <position>".
ExcelColumns(sheet) ==
    [i \in 1..Len(sheet) |->
        IF sheet[i] = <<>>
        THEN <<"U","n","n","a","m","e","d",":"," ">> \o <<DigitChar(i - 1)>>
        ELSE sheet[i]]

\* [sanitize_column_name(col) for col in df.columns.tolist()]
SanitizeAll(columns) ==
    [i \in 1..Len(columns) |-> sanitize_column_name(columns[i])]

\* One step of the comprehension
\*   [sanitize_column_name(col) for col in columns if sanitize_column_name(col)]
\* sanitized is sanitize_column_name(col), rest the result for the later cells.
KeepIfTruthy(sanitized, rest) ==
    IF sanitized # <<>> THEN <<sanitized>> \o rest ELSE rest

\* The columns of the CSV path; each cell comes out of the decoded text with
\* its NULs removed and its newlines normalised.
RECURSIVE CsvColumns(_)
CsvColumns(cells) ==
    IF cells = <<>> THEN <<>>
    ELSE KeepIfTruthy(
             sanitize_column_name(NormalizeNewlines(RemoveChar(Head(cells), "NUL"))),
             CsvColumns(Tail(cells)))

\* extract_columns_from_file: [ok, filename, columns]; ok = FALSE stands for
\* FileProcessingError.
extract_columns_from_file(file_content, filename) ==
    IF FileExt(filename) \in {<<"x","l","s","x">>, <<"x","l","s">>}
    THEN IF IsNone(file_content.sheet)
         THEN [ok |-> FALSE, filename |-> filename, columns |-> <<>>]
         ELSE [ok |-> TRUE, filename |-> filename,
               columns |-> SanitizeAll(ExcelColumns(Get(file_content.sheet)))]
    ELSE IF file_content.csv_error
         THEN [ok |-> FALSE, filename |-> filename, columns |-> <<>>]
         ELSE [ok |-> TRUE, filename |-> filename,
               columns |-> CsvColumns(file_content.cells)]

\* db/schemas.py FileInfo, and its model_dump() (the plain mapping stored).
FileInfo(filename, columns) ==
    [type |-> "FileInfo", filename |-> filename, columns |-> columns]

model_dump(f) == [filename |-> f.filename, columns |-> f.columns]

\* --------------------------------------------------------- composition
\* FileInfo(filename=file_data["filename"], columns=file_data["columns"])
AsFileInfo(file_data) ==
    [ok   |-> file_data.ok,
     info |-> FileInfo(file_data.filename, file_data.columns)]

\* RecordService._process_file: [ok, info]; ok = FALSE stands for the
\* FileProcessingError of the extractor.
_process_file(file) ==
    AsFileInfo(extract_columns_from_file(file.content, file.filename))

\* The comprehension collecting its results last file first.
ThenRestReversed(first, rest) ==
    IF ~first.ok THEN [ok |-> FALSE, infos |-> <<>>, reads |-> 1]
    ELSE IF ~rest.ok THEN [ok |-> FALSE, infos |-> <<>>, reads |-> 1 + rest.reads]
    ELSE [ok |-> TRUE, infos |-> rest.infos \o <<first.info>>,
          reads |-> 1 + rest.reads]

\* One step of the comprehension of _process_input_files: first is the
\* result for a file, rest that for the files after it (not processed when
\* first fails).  reads counts the file.read() calls made.
ThenRest(first, rest) ==
    IF ~first.ok THEN [ok |-> FALSE, infos |-> <<>>, reads |-> 1]
    ELSE IF ~rest.ok THEN [ok |-> FALSE, infos |-> <<>>, reads |-> 1 + rest.reads]
    ELSE [ok |-> TRUE, infos |-> <<first.info>> \o rest.infos,
          reads |-> 1 + rest.reads]

\* RecordService._process_input_files: the files with a filename, in order,
\* up to the first that fails.
RECURSIVE _process_input_files(_)
_process_input_files(files) ==
    IF files = <<>> THEN [ok |-> TRUE, infos |-> <<>>, reads |-> 0]
    ELSE IF Head(files).filename = <<>> THEN _process_input_files(Tail(files))
    ELSE ThenRest(_process_file(Head(files)), _process_input_files(Tail(files)))

\* The dict update_data with nothing staged: a key that is absent is None.
EmptyUpdate ==
    [user_input |-> None, expected_output |-> None,
     instruction_from_user |-> None, client_email_address |-> None,
     task_id |-> None, updated_date |-> None]

\* The emptiness check left out.
NothingStagedUnchecked(update_data) == FALSE

\* `not update_data` at the point where only the four request fields can
\* have been staged.
NothingStaged(update_data) ==
    /\ IsNone(update_data.user_input)
    /\ IsNone(update_data.expected_output)
    /\ IsNone(update_data.instruction_from_user)
    /\ IsNone(update_data.client_email_address)

\* timezone(timedelta(hours=5, minutes=30)), in minutes
IstOffset == 330

\* get_ist_datetime: the naive IST reading of the UTC instant utc.
get_ist_datetime(utc) == utc + IstOffset

\* datetime.isoformat()
isoformat(d) == [isoformat |-> d]

\* [f.model_dump() for f in input_files_data]
DumpAll(infos) == [i \in 1..Len(infos) |-> model_dump(infos[i])]

\* What _build_update_data gives: exc is "" on return, else the exception
\* raised; reads counts the file.read() calls; generated tells whether
\* uuid4() was called.
BuildFailed(exc, reads) ==
    [exc |-> exc, reads |-> reads, generated |-> FALSE,
     update_data |-> EmptyUpdate,
     user_input_files |-> None, expected_output_columns |-> None]

\* _build_update_data from the emptiness check on: staged holds the request
\* fields, infos the typed user input files.
StampGenerated(staged, infos, reads, uuid, utc) ==
    IF NothingStaged(staged) THEN BuildFailed("NoDataProvidedError", reads)
    ELSE [exc |-> "", reads |-> reads, generated |-> TRUE,
          update_data |->
              [staged EXCEPT !.task_id = Some(uuid),
                             !.updated_date = Some(get_ist_datetime(utc))],
          user_input_files |->
              IF IsSome(staged.user_input) THEN Some(infos) ELSE None,
          expected_output_columns |-> staged.expected_output]

\* _build_update_data once the expected output file, if any, is processed:
\* has_out tells whether there was one to process, out is its result.
StageRest(input, has_out, out, instruction_from_user, client_email_address, uuid, utc) ==
    IF ~out.ok THEN BuildFailed("FileProcessingError", input.reads + 1)
    ELSE StampGenerated(
             [EmptyUpdate EXCEPT
                !.user_input = IF input.infos # <<>>
                               THEN Some(DumpAll(input.infos)) ELSE None,
                !.expected_output = IF has_out THEN Some(out.info.columns) ELSE None,
                !.instruction_from_user = instruction_from_user,
                !.client_email_address = client_email_address],
             input.infos, input.reads + (IF has_out THEN 1 ELSE 0), uuid, utc)

\* _build_update_data once the user input files are processed (input).
StageOutput(input, expected_output, instruction_from_user, client_email_address, uuid, utc) ==
    IF ~input.ok THEN BuildFailed("FileProcessingError", input.reads)
    ELSE IF IsSome(expected_output) /\ Get(expected_output).filename # <<>>
    THEN StageRest(input, TRUE, _process_file(Get(expected_output)),
             instruction_from_user, client_email_address, uuid, utc)
    ELSE StageRest(input, FALSE, [ok |-> TRUE, info |-> FileInfo(<<>>, <<>>)],
             instruction_from_user, client_email_address, uuid, utc)

\* RecordService._build_update_data.  uuid is the value uuid.uuid4() yields
\* and utc the instant the clock shows, if the code gets that far.
_build_update_data(user_input, expected_output, instruction_from_user, client_email_address, uuid, utc) ==
    StageOutput(
        IF IsSome(user_input) /\ Get(user_input) # <<>>
        THEN _process_input_files(Get(user_input))
        ELSE [ok |-> TRUE, infos |-> <<>>, reads |-> 0],
        expected_output, instruction_from_user, client_email_address, uuid, utc)

\* ---------------------------------------------------------------- state
VARIABLES
    config,      \* the MONGODB_* environment read through config
    client,      \* MongoDB.client: 0 is None, n the n-th client created
    collection,  \* RecordService._collection: 0 is None, n a handle of client n
    store,       \* the collection's documents, by _id
    pc,          \* per request slot: where its coroutine is suspended
    frame,       \* per request slot: the locals of update_record
    result,      \* per request slot: what the endpoint's call ended with
    ops,         \* per request slot: calls made so far by the current request
    connect_calls, \* how often MongoDB.connect_db has been invoked
    next_uuid,   \* the next value uuid.uuid4() yields
    utc_now,     \* the wall clock
    col_name,      \* a raw column name handed to sanitize_column_name
    col_sanitized, \* what successive applications of it returned, in order
    csv_header,    \* the first record csv.reader yields for an uploaded CSV
    csv_columns    \* the columns extract_columns_from_file returned for it

\* The variables of the request pipeline, and those of the column extractor
\* run on its own.
pipeline_vars == <<config, client, collection, store, pc, frame, result, ops, connect_calls, next_uuid, utc_now>>
extractor_vars == <<col_name, col_sanitized, csv_header, csv_columns>>

vars == <<pipeline_vars, extractor_vars>>

\* -------------------------------------------------------- request inputs
IdA      == <<"5","0","7","f","1","f","7","7","b","c","f","8","6","c","d","7","9","9","4","3","9","0","1","1">>
IdAUpper == <<"5","0","7","F","1","F","7","7","B","C","F","8","6","C","D","7","9","9","4","3","9","0","1","1">>
IdB      == <<"5","0","7","f","1","f","7","7","b","c","f","8","6","c","d","7","9","9","4","3","9","0","1","2">>
IdAbsent == <<"5","0","7","f","1","f","7","7","b","c","f","8","6","c","d","7","9","9","4","3","9","0","1","3">>
IdShort  == <<"5","0","7","f","1","f","7","7","b","c","f","8","6","c","d","7","9","9","4","3","9","0","1">>
IdNonHex == <<"5","0","7","f","1","f","7","7","b","c","f","8","6","c","d","7","9","9","4","3","9","0","1","g">>
IdEmpty  == <<>>

\* The identifiers requests come with; the stored sample is asked for in
\* upper-case spelling.
RecordIds == {IdAUpper, IdAbsent, IdShort, IdNonHex, IdEmpty}

EmailGood == <<"a", "@", "b", ".", "c">>
EmailBad  == <<"a", "b">>

InstructionStored == "Process vehicle data"

\* The form parts of a PATCH request: user_input, expected_output,
\* instruction_from_user, client_email_address (None when the part is absent).
Request(user_input, expected_output, instruction_from_user, client_email_address) ==
    [user_input |-> user_input, expected_output |-> expected_output,
     instruction_from_user |-> instruction_from_user,
     client_email_address |-> client_email_address]

Requests ==
    { Request(None, None, None, None),
      Request(Some(<<FileNoName>>), None, None, None),
      Request(None, None, Some(InstructionStored), None),
      Request(None, None, None, Some(EmailBad)),
      Request(Some(<<FileXlsx, FileNoName, FileCsv>>), Some(FileXlsx), Some(""), Some(EmailGood)),
      Request(Some(<<FileNoName>>), None, None, Some(EmailGood)),
      Request(Some(<<FileCsv, FileBad>>), None, Some(InstructionStored), None),
      Request(None, Some(FileBad), None, Some(EmailGood)) }

\* --------------------------------------------------------------- initial
\* The document insert_sample creates, and a second one holding only the
\* fields the collection's validator requires.
SampleRecord ==
    [task_id |-> 0,
     user_input |-> Some(<< [filename |-> NameXlsx, columns |-> << <<"V","I","N">> >>] >>),
     expected_output |-> Some(<< <<"r","e","s","u","l","t">> >>),
     instruction_from_user |-> Some(InstructionStored),
     client_email_address |-> Some(EmailGood),
     progress |-> 0,
     created_date |-> get_ist_datetime(0),
     updated_date |-> Some(get_ist_datetime(0))]

BareRecord ==
    [task_id |-> -1,
     user_input |-> None,
     expected_output |-> None,
     instruction_from_user |-> None,
     client_email_address |-> None,
     progress |-> 0,
     created_date |-> get_ist_datetime(0),
     updated_date |-> None]

InitStore == (ObjectId(IdA) :> SampleRecord) @@ (ObjectId(IdB) :> BareRecord)

\* The environments the service can be started in: MONGODB_URL a URI the
\* driver accepts or rejects, MONGODB_DATABASE / MONGODB_COLLECTION set or
\* unset (config returns None for an unset name).
Configs == [url_ok : BOOLEAN, names_ok : BOOLEAN]

EmptyFrame ==
    [obj_id |-> None, user_input |-> None, expected_output |-> None,
     instruction_from_user |-> None, client_email_address |-> None,
     update_data |-> EmptyUpdate,
     user_input_files |-> None, expected_output_columns |-> None]

NoResult == [exc |-> None, body |-> None]

\* What a request has done so far: the identifier it was called with (None
\* for GET /db-test) and how often it has called what.
NoOps ==
    [record_id |-> None, connect_db |-> 0, find_one |-> 0, update_one |-> 0,
     read |-> 0, uuid4 |-> 0]

Called(record_id) == [NoOps EXCEPT !.record_id = Some(record_id)]

Init ==
    /\ config \in Configs
    /\ client = 0
    /\ collection = 0
    /\ store = InitStore
    /\ pc = [c \in Calls |-> "idle"]
    /\ frame = [c \in Calls |-> EmptyFrame]
    /\ result = [c \in Calls |-> NoResult]
    /\ ops = [c \in Calls |-> NoOps]
    /\ connect_calls = 0
    /\ next_uuid = 1
    /\ utc_now = 0
    /\ col_name = <<>>
    /\ col_sanitized = <<>>
    /\ csv_header = <<>>
    /\ csv_columns = None

\* ----------------------------------------------------------- connection
\* Exceptions are [type, text]; text is what str(e) gives.
Exception(type, text) == [type |-> type, text |-> text]

\* MongoDB.connect_db: AsyncIOMotorClient(url) either yields a new client,
\* which replaces MongoDB.client, or raises on a URI it cannot parse.
\* Returns [ok, type, text, client].
connect_db(cfg, cur_client) ==
    IF cfg.url_ok
    THEN [ok |-> TRUE, type |-> "", text |-> "", client |-> cur_client + 1]
    ELSE [ok |-> FALSE, type |-> "InvalidURI", text |-> "Invalid URI",
          client |-> cur_client]

\* MongoDB.get_collection: client[db_name][collection_name] raises TypeError
\* for a name that is None.  Returns [ok, type, text, handle].
get_collection(cfg, cur_client) ==
    IF cfg.names_ok
    THEN [ok |-> TRUE, type |-> "", text |-> "", handle |-> cur_client]
    ELSE [ok |-> FALSE, type |-> "TypeError",
          text |-> "name must be an instance of str", handle |-> 0]

\* RecordService._get_collection.  It has no suspension point (connect_db
\* awaits nothing), so the event loop runs it as one step.
\* Returns [ok, type, text, client, collection, connects].
_get_collection(cfg, cur_client, cur_collection) ==
    IF cur_collection # 0
    THEN [ok |-> TRUE, type |-> "", text |-> "", client |-> cur_client,
          collection |-> cur_collection, connects |-> 0]
    ELSE LET conn == connect_db(cfg, cur_client)
             coll == get_collection(cfg, conn.client)
         IN  IF ~conn.ok
             THEN [ok |-> FALSE, type |-> conn.type, text |-> conn.text,
                   client |-> conn.client,
                   collection |-> cur_collection, connects |-> 1]
             ELSE IF ~coll.ok
             THEN [ok |-> FALSE, type |-> coll.type, text |-> coll.text,
                   client |-> conn.client,
                   collection |-> cur_collection, connects |-> 1]
             ELSE [ok |-> TRUE, type |-> "", text |-> "", client |-> conn.client,
                   collection |-> coll.handle, connects |-> 1]

\* validate_object_id that checks the length only.
validate_object_id_by_length(record_id) ==
    IF Len(record_id) = ObjectIdLen THEN Some(ObjectId(record_id)) ELSE None

\* validate_object_id: Some(ObjectId), or None for InvalidRecordIdError.
validate_object_id(record_id) ==
    IF IsObjectIdString(record_id) THEN Some(ObjectId(record_id)) ELSE None

\* ------------------------------------------------------------- the store
\* An existence probe whose answer is not looked at.
find_one_ignored(docs, obj_id) == TRUE

\* collection.find_one({"_id": obj_id}): truthy iff a document has that id.
find_one(docs, obj_id) == obj_id \in DOMAIN docs

\* A write that loses the text fields of the payload.
ApplySetFilesOnly(doc, update_data) ==
    [doc EXCEPT
       !.user_input = IF IsSome(update_data.user_input)
                      THEN update_data.user_input ELSE @,
       !.expected_output = IF IsSome(update_data.expected_output)
                           THEN update_data.expected_output ELSE @,
       !.task_id = Get(update_data.task_id),
       !.updated_date = update_data.updated_date]

\* A write that leaves the stored task identifier alone.
ApplySetKeepsTaskId(doc, update_data) ==
    [doc EXCEPT
       !.user_input = IF IsSome(update_data.user_input)
                      THEN update_data.user_input ELSE @,
       !.expected_output = IF IsSome(update_data.expected_output)
                           THEN update_data.expected_output ELSE @,
       !.instruction_from_user = IF IsSome(update_data.instruction_from_user)
                                 THEN update_data.instruction_from_user ELSE @,
       !.client_email_address = IF IsSome(update_data.client_email_address)
                                THEN update_data.client_email_address ELSE @,
       !.updated_date = update_data.updated_date]

\* A write that replaces the whole document by the payload.
ApplyReplace(doc, update_data) ==
    [doc EXCEPT
       !.user_input = update_data.user_input,
       !.expected_output = update_data.expected_output,
       !.instruction_from_user = update_data.instruction_from_user,
       !.client_email_address = update_data.client_email_address,
       !.task_id = Get(update_data.task_id),
       !.updated_date = update_data.updated_date]

\* A versioned write: a payload whose task identifier is older than the
\* stored one is dropped.
ApplySetUnlessOlder(doc, update_data) ==
    IF Get(update_data.task_id) < doc.task_id THEN doc
    ELSE [doc EXCEPT
            !.user_input = IF IsSome(update_data.user_input)
                           THEN update_data.user_input ELSE @,
            !.expected_output = IF IsSome(update_data.expected_output)
                                THEN update_data.expected_output ELSE @,
            !.instruction_from_user = IF IsSome(update_data.instruction_from_user)
                                      THEN update_data.instruction_from_user ELSE @,
            !.client_email_address = IF IsSome(update_data.client_email_address)
                                     THEN update_data.client_email_address ELSE @,
            !.task_id = Get(update_data.task_id),
            !.updated_date = update_data.updated_date]

\* The document after {"$set": update_data}: staged keys replaced, every
\* other field kept.
ApplySet(doc, update_data) ==
    [doc EXCEPT
       !.user_input = IF IsSome(update_data.user_input)
                      THEN update_data.user_input ELSE @,
       !.expected_output = IF IsSome(update_data.expected_output)
                           THEN update_data.expected_output ELSE @,
       !.instruction_from_user = IF IsSome(update_data.instruction_from_user)
                                 THEN update_data.instruction_from_user ELSE @,
       !.client_email_address = IF IsSome(update_data.client_email_address)
                                THEN update_data.client_email_address ELSE @,
       !.task_id = IF IsSome(update_data.task_id)
                   THEN Get(update_data.task_id) ELSE @,
       !.updated_date = IF IsSome(update_data.updated_date)
                        THEN update_data.updated_date ELSE @]

\* update_one with upsert: a missing document is created from the payload.
update_one_upsert(docs, obj_id, update_data) ==
    IF obj_id \in DOMAIN docs
    THEN [docs |-> [docs EXCEPT ![obj_id] = ApplySet(docs[obj_id], update_data)],
          modified_count |-> 1]
    ELSE [docs |-> (obj_id :> ApplySet(BareRecord, update_data)) @@ docs,
          modified_count |-> 0]

\* collection.update_one({"_id": obj_id}, {"$set": update_data}), no upsert:
\* [docs, modified_count].
update_one(docs, obj_id, update_data) ==
    IF obj_id \in DOMAIN docs
    THEN LET after == ApplySet(docs[obj_id], update_data)
         IN  [docs |-> [docs EXCEPT ![obj_id] = after],
              modified_count |-> IF after = docs[obj_id] THEN 0 ELSE 1]
    ELSE [docs |-> docs, modified_count |-> 0]

\* ------------------------------------------------------------ responses
\* db/schemas.py UpdateRecordResponse / UpdateRecordData
UpdateRecordResponse(status, message, data) ==
    [status |-> status, message |-> message, data |-> data]

UpdateRecordData(update_data, user_input_files, expected_output_columns) ==
    [task_id |-> Get(update_data.task_id),
     user_input |-> user_input_files,
     expected_output |-> expected_output_columns,
     instruction_from_user |-> update_data.instruction_from_user,
     client_email_address |-> update_data.client_email_address,
     updated_date |-> isoformat(Get(update_data.updated_date))]

\* db/schemas.py DBConnectionResponse
DBConnectionResponse(status, message, database) ==
    [status |-> status, message |-> message, database |-> database]

\* The status code the PATCH endpoint answers with.
HttpStatus(res) ==
    IF IsNone(res.exc) THEN 200
    ELSE CASE Get(res.exc).type = "InvalidRecordIdError" -> 400
           [] Get(res.exc).type = "RecordNotFoundError" -> 404
           [] Get(res.exc).type = "NoDataProvidedError" -> 400
           [] Get(res.exc).type = "FileProcessingError" -> 400
           [] OTHER -> 500

Raised(type, text) == [exc |-> Some(Exception(type, text)), body |-> None]
Returned(body) == [exc |-> None, body |-> Some(body)]

\* check_db_connection without its handler: the exception escapes.
NotCaught(text) == Raised("Exception", text)

\* check_db_connection's handler: except Exception as e, answer with str(e).
CaughtAsError(text) == Returned(DBConnectionResponse("error", text, None))

Free(c) == pc[c] \in {"idle", "returned", "raised"}

\* An arriving request is served in the first slot that is free (which slot
\* serves it makes no difference to the service).
Accepts(c) == Free(c) /\ \A d \in Calls : d < c => ~Free(d)

\* -------------------------------------------------------------- actions
\* update_record(record_id, ...) up to its first suspension, the await of
\* find_one: validation, then _get_collection.
Arrive(c, record_id, req, obj_id, got) ==
    /\ IF IsNone(obj_id)
       THEN /\ pc' = [pc EXCEPT ![c] = "raised"]
            /\ result' = [result EXCEPT ![c] =
                   Raised("InvalidRecordIdError", "Invalid record ID format")]
            /\ frame' = [frame EXCEPT ![c] = EmptyFrame]
            /\ ops' = [ops EXCEPT ![c] = Called(record_id)]
            /\ UNCHANGED <<client, collection, connect_calls>>
       ELSE /\ connect_calls + got.connects <= MaxConnects
            /\ client' = got.client
            /\ collection' = got.collection
            /\ connect_calls' = connect_calls + got.connects
            /\ IF got.ok
               THEN /\ pc' = [pc EXCEPT ![c] = "find_one"]
                    /\ result' = [result EXCEPT ![c] = NoResult]
                    /\ frame' = [frame EXCEPT ![c] =
                           [EmptyFrame EXCEPT
                              !.obj_id = obj_id,
                              !.user_input = req.user_input,
                              !.expected_output = req.expected_output,
                              !.instruction_from_user = req.instruction_from_user,
                              !.client_email_address = req.client_email_address]]
                    /\ ops' = [ops EXCEPT ![c] =
                           [Called(record_id) EXCEPT !.connect_db = got.connects,
                                                     !.find_one = 1]]
               ELSE /\ pc' = [pc EXCEPT ![c] = "raised"]
                    /\ result' = [result EXCEPT ![c] =
                           Raised(got.type, got.text)]
                    /\ frame' = [frame EXCEPT ![c] = EmptyFrame]
                    /\ ops' = [ops EXCEPT ![c] =
                           [Called(record_id) EXCEPT !.connect_db = got.connects]]
    /\ UNCHANGED <<config, store, next_uuid, utc_now, extractor_vars>>

\* PATCH /records/{id} with the form parts req: update_record_with_csv hands
\* them to update_record unchanged.
update_record_with_csv(c, record_id, req) ==
    /\ Accepts(c)
    /\ Arrive(c, record_id, req, validate_object_id(record_id),
              _get_collection(config, client, collection))

\* A PATCH request arrives.
UpdateRecordStart(c) ==
    \E record_id \in RecordIds, req \in Requests :
        update_record_with_csv(c, record_id, req)

\* update_record from the answer of the existence probe to its next
\* suspension, built being what _build_update_data gives for the request.
Probed(c, built, utc) ==
    IF ~find_one(store, Get(frame[c].obj_id))
    THEN /\ pc' = [pc EXCEPT ![c] = "raised"]
         /\ result' = [result EXCEPT ![c] =
                Raised("RecordNotFoundError", "Record not found")]
         /\ frame' = [frame EXCEPT ![c] = EmptyFrame]
         /\ UNCHANGED <<ops, next_uuid, utc_now>>
    ELSE IF built.exc # ""
    THEN /\ pc' = [pc EXCEPT ![c] = "raised"]
         /\ result' = [result EXCEPT ![c] = Raised(built.exc, built.exc)]
         /\ frame' = [frame EXCEPT ![c] = EmptyFrame]
         /\ ops' = [ops EXCEPT ![c].read = built.reads]
         /\ UNCHANGED <<next_uuid, utc_now>>
    ELSE /\ next_uuid <= MaxUuid
         /\ pc' = [pc EXCEPT ![c] = "update_one"]
         /\ frame' = [frame EXCEPT ![c] =
                [EmptyFrame EXCEPT
                   !.obj_id = frame[c].obj_id,
                   !.update_data = built.update_data,
                   !.user_input_files = built.user_input_files,
                   !.expected_output_columns = built.expected_output_columns]]
         /\ ops' = [ops EXCEPT ![c].read = built.reads,
                               ![c].uuid4 = 1,
                               ![c].update_one = 1]
         /\ next_uuid' = next_uuid + 1
         /\ utc_now' = utc
         /\ UNCHANGED result

\* The existence probe is answered and update_record runs on to its next
\* suspension: it raises, or composes the payload and awaits update_one.
\* File reads touch nothing shared, so composition is taken as one step.
FindOne(c) ==
    /\ pc[c] = "find_one"
    /\ \E utc \in utc_now..MaxClock :
         Probed(c,
                _build_update_data(frame[c].user_input, frame[c].expected_output,
                    frame[c].instruction_from_user, frame[c].client_email_address,
                    next_uuid, utc),
                utc)
    /\ UNCHANGED <<config, client, collection, store, connect_calls, extractor_vars>>

\* update_record from the answer of update_one on: written is what the
\* store made of the update.
Answered(c, written) ==
    /\ store' = written.docs
    /\ pc' = [pc EXCEPT ![c] = "returned"]
    /\ result' = [result EXCEPT ![c] =
           IF written.modified_count = 0
           THEN Returned(UpdateRecordResponse("unchanged",
                    "No changes made to the record", None))
           ELSE Returned(UpdateRecordResponse("success",
                    "Record updated successfully",
                    Some(UpdateRecordData(frame[c].update_data,
                        frame[c].user_input_files,
                        frame[c].expected_output_columns))))]
    /\ frame' = [frame EXCEPT ![c] = EmptyFrame]

\* The store applies the update and update_record builds its response.
UpdateOne(c) ==
    /\ pc[c] = "update_one"
    /\ Answered(c, update_one(store, Get(frame[c].obj_id), frame[c].update_data))
    /\ UNCHANGED <<config, client, collection, ops, connect_calls, next_uuid, utc_now, extractor_vars>>

\* GET /db-test arrives: check_db_connection runs up to the await of ping,
\* or returns the error _get_collection raised.
CheckStart(c) ==
    /\ Accepts(c)
    /\ LET got == _get_collection(config, client, collection)
       IN  /\ connect_calls + got.connects <= MaxConnects
           /\ client' = got.client
           /\ collection' = got.collection
           /\ connect_calls' = connect_calls + got.connects
           /\ ops' = [ops EXCEPT ![c] = [NoOps EXCEPT !.connect_db = got.connects]]
           /\ IF got.ok
              THEN /\ pc' = [pc EXCEPT ![c] = "ping"]
                   /\ result' = [result EXCEPT ![c] = NoResult]
              ELSE /\ pc' = [pc EXCEPT ![c] = "returned"]
                   /\ result' = [result EXCEPT ![c] = CaughtAsError(got.text)]
    /\ frame' = [frame EXCEPT ![c] = EmptyFrame]
    /\ UNCHANGED <<config, store, next_uuid, utc_now, extractor_vars>>

\* The ping is answered, or fails; either way check_db_connection returns.
Ping(c) ==
    /\ pc[c] = "ping"
    /\ \E server_up \in BOOLEAN :
         result' = [result EXCEPT ![c] =
             IF server_up
             THEN Returned(DBConnectionResponse("connected",
                      "MongoDB connection successful", Some("MONGODB_DATABASE")))
             ELSE CaughtAsError("No servers found")]
    /\ pc' = [pc EXCEPT ![c] = "returned"]
    /\ UNCHANGED <<config, client, collection, store, frame, ops, connect_calls, next_uuid, utc_now, extractor_vars>>

\* Another actor removes the documents (setup_collection with drop set).
DropCollection ==
    /\ store # <<>>
    /\ store' = <<>>
    /\ UNCHANGED <<config, client, collection, pc, frame, result, ops, connect_calls, next_uuid, utc_now, extractor_vars>>

Next ==
    \/ \E c \in Calls : UpdateRecordStart(c)
    \/ \E c \in Calls : FindOne(c)
    \/ \E c \in Calls : UpdateOne(c)
    \/ \E c \in Calls : CheckStart(c)
    \/ \E c \in Calls : Ping(c)
    \/ DropCollection

Spec == Init /\ [][Next]_vars

\* ------------------------------------------------- the column extractor
\* utils/file_utils.py run on its own: sanitize_column_name applied to a raw
\* name and again to what it returned, and extract_columns_from_file applied
\* to an uploaded CSV file.
NameChars == {"a", " ", "TAB", "SOH", "NUL"}

\* The raw names: every string of at most MaxNameLen of these characters.
ColumnNames == UNION {[1..k -> NameChars] : k \in 0..MaxNameLen}

\* The cells a CSV header row is made of.
HeaderCells == {<<"a">>, <<>>, <<"SOH">>, <<" ", "b">>}

HeaderRows == UNION {[1..k -> HeaderCells] : k \in 0..MaxCells}

\* An uploaded CSV file whose first record is header.
CsvUpload(header) ==
    [filename |-> NameCsv,
     content  |-> [sheet |-> None, csv_error |-> FALSE, cells |-> header]]

InitExtractor ==
    /\ config = [url_ok |-> TRUE, names_ok |-> TRUE]
    /\ client = 0
    /\ collection = 0
    /\ store = InitStore
    /\ pc = [c \in Calls |-> "idle"]
    /\ frame = [c \in Calls |-> EmptyFrame]
    /\ result = [c \in Calls |-> NoResult]
    /\ ops = [c \in Calls |-> NoOps]
    /\ connect_calls = 0
    /\ next_uuid = 1
    /\ utc_now = 0
    /\ col_name \in ColumnNames
    /\ col_sanitized = <<>>
    /\ csv_header \in HeaderRows
    /\ csv_columns = None

\* sanitize_column_name is applied to the raw name, then to its own result.
Sanitize ==
    /\ Len(col_sanitized) < MaxApply
    /\ col_sanitized' = Append(col_sanitized,
           sanitize_column_name(IF col_sanitized = <<>> THEN col_name
                                ELSE col_sanitized[Len(col_sanitized)]))
    /\ UNCHANGED <<pipeline_vars, col_name, csv_header, csv_columns>>

\* extract_columns_from_file is applied to the uploaded CSV file.
ExtractCsv ==
    /\ IsNone(csv_columns)
    /\ csv_columns' =
           Some(extract_columns_from_file(CsvUpload(csv_header).content,
                                          CsvUpload(csv_header).filename).columns)
    /\ UNCHANGED <<pipeline_vars, col_name, col_sanitized, csv_header>>

NextExtractor == Sanitize \/ ExtractCsv

SpecExtractor == InitExtractor /\ [][NextExtractor]_vars

\* ================================================================ claims
RequestFields ==
    {"user_input", "expected_output", "instruction_from_user", "client_email_address"}

ExcType(c) == IF IsSome(result[c].exc) THEN Get(result[c].exc).type ELSE ""

\* Slot c leaves the state at which it awaits `at` in this step.
Leaves(c, at) == pc[c] = at /\ pc'[c] # at

\* An identifier that is no 24-character hexadecimal string.
NotStoreNativeId(s) ==
    \/ Len(s) # 24
    \/ \E i \in 1..Len(s) : s[i] \notin HexDigits

\* C1: a call of update_record with an identifier that is not a
\* store-native id has failed with InvalidRecordIdError, and has made no
\* store access: it has not connected, and issued no find_one and no
\* update_one.
C1_InvalidIdBeforeStoreAccess ==
    \A c \in Calls :
        (IsSome(ops[c].record_id) /\ NotStoreNativeId(Get(ops[c].record_id)))
        => /\ pc[c] = "raised"
           /\ result[c].exc = Some(Exception("InvalidRecordIdError", "Invalid record ID format"))
           /\ ops[c].connect_db = 0
           /\ ops[c].find_one = 0
           /\ ops[c].update_one = 0
           /\ ops[c].read = 0

\* Such a call has ended while the service has never connected.
C1_Witness ==
    \E c \in Calls :
        /\ IsSome(ops[c].record_id)
        /\ Get(ops[c].record_id) = IdNonHex
        /\ ExcType(c) = "InvalidRecordIdError"
        /\ client = 0
        /\ connect_calls = 0

\* C2: when the existence probe of a call finds no document with the id, the
\* call ends with RecordNotFoundError, and it
\* has read no uploaded file, generated nothing and issued no update_one.
C2_AbsentRecordNoParsing ==
    [][\A c \in Calls :
          (Leaves(c, "find_one") /\ Get(frame[c].obj_id) \notin DOMAIN store)
          => /\ pc'[c] = "raised"
             /\ Get(result'[c].exc).type = "RecordNotFoundError"
             /\ ops'[c].read = 0
             /\ ops'[c].uuid4 = 0
             /\ ops'[c].update_one = 0
             /\ store' = store]_vars

C2_Witness ==
    \E c \in Calls :
        /\ ExcType(c) = "RecordNotFoundError"
        /\ ops[c].find_one = 1
        /\ ops[c].read = 0
        /\ store # <<>>

\* The request held by frame f stages none of the four request fields: each
\* is absent, or is a file part without a filename.
StagesNothing(f) ==
    /\ IsNone(f.user_input) \/ \A i \in 1..Len(Get(f.user_input)) :
                                    Get(f.user_input)[i].filename = <<>>
    /\ IsNone(f.expected_output) \/ Get(f.expected_output).filename = <<>>
    /\ IsNone(f.instruction_from_user)
    /\ IsNone(f.client_email_address)

\* C3: a call on an existing record whose request stages none of the four
\* fields ends with NoDataProvidedError
\* before uuid4 is called, and issues no update_one; and every payload handed
\* to update_one holds at least one of the four fields.
C3_EmptyUpdateNeverReachesStore ==
    /\ [](\A c \in Calls :
            pc[c] = "update_one" =>
                \E k \in RequestFields : IsSome(frame[c].update_data[k]))
    /\ [][\A c \in Calls :
            (/\ Leaves(c, "find_one")
             /\ Get(frame[c].obj_id) \in DOMAIN store
             /\ StagesNothing(frame[c]))
            => /\ pc'[c] = "raised"
               /\ Get(result'[c].exc).type = "NoDataProvidedError"
               /\ next_uuid' = next_uuid
               /\ ops'[c].uuid4 = 0
               /\ ops'[c].update_one = 0
               /\ store' = store]_vars

C3_Witness ==
    \E c \in Calls :
        /\ ExcType(c) = "NoDataProvidedError"
        /\ ops[c].find_one = 1
        /\ ops[c].uuid4 = 0
        /\ ops[c].update_one = 0

\* C4: the payload is written whole or not at all.  A call issues at most
\* one update_one; a call that ends with FileProcessingError or
\* NoDataProvidedError has issued none and leaves the documents as they were;
\* and the one write of a call puts every staged field of its payload into
\* the addressed document in a single step.
C4_PayloadNeverPartiallyPersisted ==
    /\ [](\A c \in Calls :
            /\ ops[c].update_one <= 1
            /\ ExcType(c) \in {"FileProcessingError", "NoDataProvidedError"}
                   => ops[c].update_one = 0)
    /\ [][\A c \in Calls :
            /\ (Leaves(c, "find_one") /\ pc'[c] = "raised") => store' = store
            /\ (Leaves(c, "update_one") /\ pc'[c] = "returned"
                   /\ Get(frame[c].obj_id) \in DOMAIN store)
               => \A k \in RequestFields :
                      IsSome(frame[c].update_data[k])
                      => store'[Get(frame[c].obj_id)][k] = frame[c].update_data[k]]_vars

\* A file of the request was parsed, then composition failed.
C4_Witness ==
    \E c \in Calls :
        /\ ExcType(c) = "FileProcessingError"
        /\ ops[c].read = 2
        /\ ops[c].update_one = 0
        /\ store = InitStore

\* C5: a call that returns "success" has, in the step of its write, stored
\* the task identifier and the timestamp its composition generated; the
\* response carries that identifier and the ISO form of that timestamp, and
\* the identifier differs from the one stored before.
C5_SuccessWritesFreshTaskId ==
    [][\A c \in Calls :
          (/\ Leaves(c, "update_one")
           /\ pc'[c] = "returned"
           /\ Get(result'[c].body).status = "success")
          => /\ Get(frame[c].obj_id) \in DOMAIN store'
             /\ ops[c].uuid4 = 1
             /\ IsSome(Get(result'[c].body).data)
             /\ Get(Get(result'[c].body).data).task_id
                    = store'[Get(frame[c].obj_id)].task_id
             /\ Get(Get(result'[c].body).data).updated_date
                    = isoformat(Get(store'[Get(frame[c].obj_id)].updated_date))
             /\ Get(Get(result'[c].body).data).task_id
                    = Get(frame[c].update_data.task_id)
             /\ store'[Get(frame[c].obj_id)].task_id
                    # store[Get(frame[c].obj_id)].task_id]_vars

C5_Witness ==
    \E c \in Calls :
        /\ pc[c] = "returned"
        /\ IsSome(result[c].body)
        /\ Get(result[c].body).status = "success"
        /\ ObjectId(IdA) \in DOMAIN store
        /\ store[ObjectId(IdA)].task_id = Get(Get(result[c].body).data).task_id
        /\ IsNone(Get(Get(result[c].body).data).user_input)

\* The four request fields the payload stages all equal what document doc
\* holds.
SameAsStored(update_data, doc) ==
    \A k \in RequestFields : IsSome(update_data[k]) => update_data[k] = doc[k]

\* C6: a write whose staged field values are identical to the stored ones
\* is answered "unchanged" without data, and leaves the stored task
\* identifier as it was.
C6_IdenticalValuesUnchanged ==
    [][\A c \in Calls :
          (/\ Leaves(c, "update_one")
           /\ Get(frame[c].obj_id) \in DOMAIN store
           /\ SameAsStored(frame[c].update_data, store[Get(frame[c].obj_id)]))
          => /\ Get(result'[c].body).status = "unchanged"
             /\ IsNone(Get(result'[c].body).data)
             /\ store'[Get(frame[c].obj_id)].task_id
                    = store[Get(frame[c].obj_id)].task_id]_vars

\* A step of the pipeline, as opposed to one of another actor on the store.
PipelineStep ==
    ~(UNCHANGED <<client, collection, pc, frame, result, ops, connect_calls, next_uuid, utc_now>>)

\* C7: a step of the pipeline neither adds nor removes a document, and
\* changes at most the document a call's update_one addresses; of that
\* document, progress, created_date and every request field the call did
\* not stage keep their values.
C7_PartialMerge ==
    [][PipelineStep =>
          /\ DOMAIN store' = DOMAIN store
          /\ \A o \in DOMAIN store :
                \/ store'[o] = store[o]
                \/ \E c \in Calls :
                      /\ Leaves(c, "update_one")
                      /\ Get(frame[c].obj_id) = o
                      /\ store'[o].progress = store[o].progress
                      /\ store'[o].created_date = store[o].created_date
                      /\ \A k \in RequestFields :
                            IsNone(frame[c].update_data[k])
                            => store'[o][k] = store[o][k]]_vars

\* The sample has a new email address and task identifier, and otherwise
\* its first values; the other document is as created.
C7_Witness ==
    /\ DOMAIN store = DOMAIN InitStore
    /\ store[ObjectId(IdA)].client_email_address = Some(EmailBad)
    /\ store[ObjectId(IdA)].task_id # SampleRecord.task_id
    /\ store[ObjectId(IdA)].user_input = SampleRecord.user_input
    /\ store[ObjectId(IdA)].instruction_from_user = SampleRecord.instruction_from_user
    /\ store[ObjectId(IdB)] = BareRecord

\* The number of positions of s holding character ch.
Count(s, ch) == Cardinality({i \in 1..Len(s) : s[i] = ch})

\* The shape EmailStr accepts, as far as the model's addresses go: one "@",
\* a local part, and a domain with a dot inside it.
WellFormedEmail(s) ==
    /\ Count(s, "@") = 1
    /\ s[1] # "@"
    /\ \E i \in 1..Len(s) :
          /\ s[i] = "."
          /\ i < Len(s)
          /\ \E j \in 1..(i - 2) : s[j] = "@"

\* C8: an address that is not a well-formed email never gets into the
\* pipeline: no call of update_record holds one, no payload stages one and
\* no document stores one.
C8_MalformedEmailRejectedAtBoundary ==
    /\ \A c \in Calls :
          /\ IsSome(frame[c].client_email_address)
                => WellFormedEmail(Get(frame[c].client_email_address))
          /\ IsSome(frame[c].update_data.client_email_address)
                => WellFormedEmail(Get(frame[c].update_data.client_email_address))
    /\ \A o \in DOMAIN store :
          IsSome(store[o].client_email_address)
             => WellFormedEmail(Get(store[o].client_email_address))

\* C9: check_db_connection never raises.  Its first step goes on to the
\* ping or returns an "error" result whose message is the text of what
\* connecting or obtaining the collection raised; the answer of the ping
\* makes it return "connected", or "error" with the text of the failure.
C9_CheckNeverRaises ==
    [][\A c \in Calls :
          /\ CheckStart(c)
             => /\ IsNone(result'[c].exc)
                /\ pc'[c] \in {"ping", "returned"}
                /\ pc'[c] = "returned"
                   => /\ Get(result'[c].body).status = "error"
                      /\ Get(result'[c].body).message =
                             IF ~config.url_ok THEN "Invalid URI"
                             ELSE "name must be an instance of str"
                /\ (collection = 0 /\ ~(config.url_ok /\ config.names_ok))
                   => pc'[c] = "returned"
          /\ Ping(c)
             => /\ IsNone(result'[c].exc)
                /\ pc'[c] = "returned"
                /\ \/ Get(result'[c].body).status = "connected"
                   \/ /\ Get(result'[c].body).status = "error"
                      /\ Get(result'[c].body).message = "No servers found"]_vars

\* A check has returned "error" for a failed ping, and nothing was raised.
C9_Witness ==
    \E c \in Calls :
        /\ pc[c] = "returned"
        /\ IsNone(result[c].exc)
        /\ Get(result[c].body).status = "error"
        /\ Get(result[c].body).message = "No servers found"

\* C10: once connect_db has succeeded (MongoDB.client is set) it is not
\* invoked again, and the client stays the one every later call uses.
C10_ConnectOnceThenReuse ==
    [][client # 0 => (connect_calls' = connect_calls /\ client' = client)]_vars

\* The name as it is before the placeholder is substituted.
Stripped(name) == DropControl(Strip(RemoveChar(name, "NUL")))

\* C11: sanitize_column_name is idempotent: applied to its own result it
\* returns that result unchanged, for every raw name, also one with a
\* control character next to leading or trailing whitespace or a tab, and
\* one that sanitizes to empty.
C11_SanitizeIdempotent ==
    Len(col_sanitized) >= 2 => col_sanitized[2] = col_sanitized[1]

\* The number of cells of the row that are empty after sanitization.
RECURSIVE EmptyCells(_)
EmptyCells(row) ==
    IF row = <<>> THEN 0
    ELSE (IF Stripped(Head(row)) = <<>> THEN 1 ELSE 0) + EmptyCells(Tail(row))

\* C12: on the CSV path a header cell that is empty after sanitization is
\* left out of the returned columns and no placeholder stands in for it:
\* the list is shorter than the header row by the number of such cells,
\* and every entry returned is a non-empty string.
C12_CsvOmitsEmptyCells ==
    IsSome(csv_columns) =>
        /\ Len(Get(csv_columns)) = Len(csv_header) - EmptyCells(csv_header)
        /\ \A i \in 1..Len(Get(csv_columns)) :
               /\ Get(csv_columns)[i] # <<>>
               /\ Get(csv_columns)[i] # UnnamedColumn

\* The uploads of a user_input part that carry a filename, in upload order.
NamedFiles(user_input) ==
    IF IsNone(user_input) THEN <<>>
    ELSE SelectSeq(Get(user_input), LAMBDA f : f.filename # <<>>)

\* The FileInfo of each of these files, in the same order.
InfosOf(files) ==
    [i \in 1..Len(files) |->
        FileInfo(files[i].filename,
                 extract_columns_from_file(files[i].content, files[i].filename).columns)]

ReadsOfOutput(expected_output) ==
    IF IsSome(expected_output) /\ Get(expected_output).filename # <<>> THEN 1 ELSE 0

\* C13: when composition succeeds, the typed user input list is exactly one
\* FileInfo per uploaded user_input file with a non-empty filename, in
\* upload order, and the staged user_input is its plain form; files with
\* an empty filename are not read; when no file remains, user_input is not
\* staged.  The success response carries the typed list unchanged.
C13_UserInputOnePerNamedFile ==
    [][\A c \in Calls :
          /\ (pc[c] = "find_one" /\ pc'[c] = "update_one")
             => /\ frame'[c].user_input_files =
                       IF NamedFiles(frame[c].user_input) = <<>> THEN None
                       ELSE Some(InfosOf(NamedFiles(frame[c].user_input)))
                /\ frame'[c].update_data.user_input =
                       IF NamedFiles(frame[c].user_input) = <<>> THEN None
                       ELSE Some([i \in 1..Len(NamedFiles(frame[c].user_input)) |->
                                [filename |-> InfosOf(NamedFiles(frame[c].user_input))[i].filename,
                                 columns |-> InfosOf(NamedFiles(frame[c].user_input))[i].columns]])
                /\ ops'[c].read = Len(NamedFiles(frame[c].user_input))
                                     + ReadsOfOutput(frame[c].expected_output)
          /\ (/\ Leaves(c, "update_one")
              /\ Get(result'[c].body).status = "success")
             => Get(Get(result'[c].body).data).user_input = frame[c].user_input_files]_vars

\* A success whose user input had two named files around an unnamed one.
C13_Witness ==
    \E c \in Calls :
        /\ pc[c] = "returned"
        /\ IsSome(result[c].body)
        /\ Get(result[c].body).status = "success"
        /\ IsSome(Get(Get(result[c].body).data).user_input)
        /\ Len(Get(Get(Get(result[c].body).data).user_input)) = 2
        /\ Get(Get(Get(result[c].body).data).user_input)[1].filename = NameXlsx
        /\ Get(Get(Get(result[c].body).data).user_input)[2].filename = NameCsv
        /\ ops[c].read = 3

\* The stored form of what the success response data says was staged for
\* field k (None when the call did not stage it).
StagedBy(data, k) ==
    IF k = "user_input"
    THEN (IF IsSome(data.user_input) THEN Some(DumpAll(Get(data.user_input))) ELSE None)
    ELSE data[k]

\* Call d has written to the record with identifier obj_id, and no write to
\* that record has been applied since.
WroteLast(d, obj_id) ==
    /\ pc[d] = "returned"
    /\ IsSome(ops[d].record_id)
    /\ validate_object_id(Get(ops[d].record_id)) = Some(obj_id)
    /\ IsSome(result[d].body)
    /\ Get(result[d].body).status = "success"
    /\ obj_id \in DOMAIN store
    /\ store[obj_id].task_id = Get(Get(result[d].body).data).task_id

\* C14: two update_record calls write to the same existing record, the
\* write of d applied first and that of c second, however the rest of the
\* two calls interleaved.  After the second write every field c staged
\* holds c's value (so a field both staged holds the last-applied value),
\* every field only d staged holds d's value, and the stored task
\* identifier is the one c generated.
C14_LastWriteWinsPerField ==
    [][\A c, d \in Calls :
          (/\ c # d
           /\ Leaves(c, "update_one")
           /\ WroteLast(d, Get(frame[c].obj_id)))
          => /\ Get(frame[c].obj_id) \in DOMAIN store'
             /\ store'[Get(frame[c].obj_id)].task_id = Get(frame[c].update_data.task_id)
             /\ \A k \in RequestFields :
                    store'[Get(frame[c].obj_id)][k] =
                        IF IsSome(frame[c].update_data[k])
                        THEN frame[c].update_data[k]
                        ELSE IF IsSome(StagedBy(Get(Get(result[d].body).data), k))
                        THEN StagedBy(Get(Get(result[d].body).data), k)
                        ELSE store[Get(frame[c].obj_id)][k]]_vars

\* Both calls overlapped: c composed its payload first (task identifier 1)
\* and wrote last, d composed second (task identifier 2) and wrote first.
\* The email both staged is c's, the instruction only d staged is d's, and
\* the stored task identifier is c's.
C14_Witness ==
    \E c, d \in Calls :
        /\ c # d
        /\ pc[c] = "returned" /\ pc[d] = "returned"
        /\ IsSome(result[c].body) /\ IsSome(result[d].body)
        /\ Get(result[c].body).status = "success"
        /\ Get(result[d].body).status = "success"
        /\ Get(Get(result[c].body).data).task_id = 1
        /\ Get(Get(result[d].body).data).task_id = 2
        /\ Get(Get(result[c].body).data).client_email_address = Some(EmailBad)
        /\ IsNone(Get(Get(result[c].body).data).instruction_from_user)
        /\ Get(Get(result[d].body).data).client_email_address = Some(EmailGood)
        /\ Get(Get(result[d].body).data).instruction_from_user = Some("")
        /\ ObjectId(IdA) \in DOMAIN store
        /\ store[ObjectId(IdA)].task_id = 1
        /\ store[ObjectId(IdA)].client_email_address = Some(EmailBad)
        /\ store[ObjectId(IdA)].instruction_from_user = Some("")

\* C15: the record is removed after the existence probe of a call found it
\* and before the call's write.  The write then matches nothing: the call
\* returns "unchanged" with no data, raises nothing (no
\* RecordNotFoundError), and no record with that identifier is created.
C15_RemovedAfterProbeUnchanged ==
    [][\A c \in Calls :
          (/\ Leaves(c, "update_one")
           /\ Get(frame[c].obj_id) \notin DOMAIN store)
          => /\ pc'[c] = "returned"
             /\ IsNone(result'[c].exc)
             /\ IsSome(result'[c].body)
             /\ Get(result'[c].body).status = "unchanged"
             /\ IsNone(Get(result'[c].body).data)
             /\ Get(frame[c].obj_id) \notin DOMAIN store'
             /\ store' = store]_vars

\* A call whose probe found the record and whose write found it gone.
C15_Witness ==
    \E c \in Calls :
        /\ pc[c] = "returned"
        /\ ops[c].find_one = 1
        /\ ops[c].uuid4 = 1
        /\ ops[c].update_one = 1
        /\ IsSome(result[c].body)
        /\ Get(result[c].body).status = "unchanged"
        /\ IsNone(Get(result[c].body).data)
        /\ validate_object_id(Get(ops[c].record_id)) = Some(ObjectId(IdA))
        /\ ObjectId(IdA) \notin DOMAIN store

====
